---- MODULE Spec2Model ----
(***************************************************************************)
(* Model of winit's web PointerHandler                                     *)
(* (src/platform_impl/web/web_sys/canvas/pointer_handler.rs).              *)
(*                                                                         *)
(* The PointerHandler is a registry of six optional EventListenerHandles.  *)
(* Each on_* method attaches a closure to one host event channel of the    *)
(* canvas and stores the handle in its field; remove_listeners clears all  *)
(* six fields.  The host (browser) raises pointer events and delivers each *)
(* to the closures attached to the channel of its name; a closure          *)
(* classifies the pointer type, extracts attributes and calls the          *)
(* caller-supplied handler(s).                                             *)
(*                                                                         *)
(* What a delivery did is recorded in `trace`, in program order: the       *)
(* handler invocations with their arguments, prevent_default, the          *)
(* pointer-capture request and a panic (expect / debug_assert failure).    *)
(***************************************************************************)
EXTENDS Integers, Sequences, FiniteSets, TLC

(***************************************************************************)
(* Bounds of the model.                                                    *)
(***************************************************************************)
\* number of on_* registrations made during one behaviour
MaxInstalls == 2
\* longest coalesced batch the host hands out (specification SpecMove)
MaxBatch == 2
MaxArrivals == 2

(***************************************************************************)
(* Values of the host's events.                                            *)
(***************************************************************************)
EventNames ==
    {"pointerout", "pointerover", "pointermove", "pointerdown", "pointerup", "pointercancel"}

\* the PointerHandler's fields
Fields ==
    {"on_cursor_leave", "on_cursor_enter", "on_cursor_move", "on_pointer_press",
     "on_pointer_release", "on_touch_cancel"}

\* PointerEvent.pointerType: "pen" stands for every type other than mouse and touch
PointerTypes == {"mouse", "touch", "pen"}

\* PointerEvent.pointerId
PointerIds == {1, 7}

\* no button identifiable (Option::None of event::mouse_button)
NoButton == "None"

\* snapshots of (modifiers, buttons, button) carried by an event
MouseStates ==
    { [mods |-> {}, buttons |-> {}, button |-> NoButton],
      [mods |-> {"SHIFT"}, buttons |-> {"LEFT"}, button |-> "Left"] }

\* samples of (position, movement, pressure); pressure in per cent of 1.0
Samples ==
    { [x |-> 10, dx |-> 1, pressure |-> 0],
      [x |-> 25, dx |-> -3, pressure |-> 100] }

\* the events of a coalesced batch: PointerEvents of their own
SubEvents ==
    { [ptype |-> t, id |-> i, mods |-> m.mods, buttons |-> m.buttons, button |-> m.button,
       x |-> s.x, dx |-> s.dx, pressure |-> s.pressure] :
         t \in PointerTypes, i \in PointerIds, m \in MouseStates, s \in Samples }

\* sequences over S of length at most n
RECURSIVE SeqsUpTo(_, _)
SeqsUpTo(S, n) ==
    IF n = 0 THEN {<<>>}
    ELSE LET shorter == SeqsUpTo(S, n - 1)
         IN  shorter \cup {Append(q, s) : q \in {r \in shorter : Len(r) = n - 1}, s \in S}

\* a root event: has_coalesced is whether the host has the getCoalescedEvents accessor
RootEvent(n, t, i, m, s, has, batch) ==
    [name |-> n, ptype |-> t, id |-> i, mods |-> m.mods, buttons |-> m.buttons,
     button |-> m.button, x |-> s.x, dx |-> s.dx, pressure |-> s.pressure,
     has_coalesced |-> has, coalesced |-> batch]

RootSample == CHOOSE s \in Samples : s.x = 10

\* the sub-events the lifecycle specification puts in a batch
BasicSubEvents == {e \in SubEvents : e.x = 25 /\ e.mods = {} /\ e.id = 7 /\ e.ptype = "mouse"}

\* the events of the lifecycle specification Spec
Events ==
    { RootEvent(n, t, i, m, RootSample, FALSE, <<>>) :
         n \in EventNames, t \in PointerTypes, i \in PointerIds, m \in MouseStates }
    \cup
    { RootEvent("pointermove", t, i, m, RootSample, TRUE, b) :
         t \in PointerTypes, i \in PointerIds, m \in MouseStates,
         b \in SeqsUpTo(BasicSubEvents, 1) }

\* the pointermove events of the expansion specification SpecMove
MoveEvents ==
    { RootEvent("pointermove", t, i, m, RootSample, FALSE, <<>>) :
         t \in PointerTypes, i \in PointerIds, m \in MouseStates }
    \cup
    { RootEvent("pointermove", t, i, m, RootSample, TRUE, b) :
         t \in PointerTypes, i \in PointerIds, m \in MouseStates,
         b \in SeqsUpTo(SubEvents, MaxBatch) }

\* the pointermove events of the ordering specification SpecOrder: a mouse
\* or a touch of pointer 1 whose sub-events agree with the root
OrderEvents ==
    { e \in MoveEvents :
         /\ e.ptype \in {"mouse", "touch"}
         /\ e.id = 1
         /\ e.mods = {}
         /\ \A k \in DOMAIN e.coalesced :
               /\ e.coalesced[k].ptype = e.ptype
               /\ e.coalesced[k].id = e.id
               /\ e.coalesced[k].mods = e.mods }

NoEvent == [name |-> "none"]

\* Option::None of a registry field
None == 0

VARIABLES
    handler,           \* the PointerHandler: field -> None or the handle it owns
    listeners,         \* the canvas: event name -> the closures attached, in order
    installs,          \* handles created so far; a handle is its creation number
    opOf,              \* history: the field each handle was created for
    pc,                \* "idle", or "assign" inside a registration
    tmp,               \* inside a registration: the handle not yet assigned
    inflight,          \* the event the host has raised and not yet delivered
    last,              \* the event delivered last
    trace,             \* what the last delivery did, in program order
    torn,              \* history: fields cleared by remove_listeners, not registered since
    teardowns,         \* history: remove_listeners calls in a row (counted up to two)
    stale,             \* history: the event in flight, or being delivered, was
                       \* raised before a remove_listeners call
    debug_assertions,  \* build configuration: cfg(debug_assertions)
    arrivals,          \* history: the pointermove events the host raised, in arrival order
    served,            \* how many of the arrivals the host has delivered
    log                \* history: what the deliveries of the arrivals did, in program order

vars == <<handler, listeners, installs, opOf, pc, tmp, inflight, last, trace,
          torn, teardowns, stale, debug_assertions, arrivals, served, log>>

\* the host's record of a stream of pointermove events
stream == <<arrivals, served, log>>

(***************************************************************************)
(* Collaborators outside the file: attribute extraction (super::event),    *)
(* coordinate scaling (crate::dpi) and the listener primitive              *)
(* (super::EventListenerHandle, super::Common).                            *)
(***************************************************************************)
pointer_type(e) == e.ptype
pointer_id(e) == e.id
mouse_modifiers(e) == e.mods
mouse_buttons(e) == e.buttons
mouse_button(e) == e.button
mouse_position(e) == e.x
mouse_delta(e) == e.dx
touch_position(e) == e.x
pressure(e) == e.pressure

scale_factor == 2
to_physical(p) == p * scale_factor

\* Force::Normalized(event.pressure() as f64)
Normalized(p) == <<"Normalized", p>>

\* Common::add_event: attach a closure to the channel `name`; the handle is h
add_event(ls, name, l) == [ls EXCEPT ![name] = Append(@, l)]

\* Common::add_user_event: as add_event, for events of user activation
add_user_event(ls, name, l) == add_event(ls, name, l)

\* Drop of an EventListenerHandle: detach its closure from every channel
RECURSIVE Without(_, _)
Without(q, h) ==
    IF q = <<>> THEN <<>>
    ELSE IF Head(q).h = h THEN Without(Tail(q), h)
    ELSE <<Head(q)>> \o Without(Tail(q), h)

drop_handle(ls, h) ==
    IF h = None THEN ls ELSE [n \in EventNames |-> Without(ls[n], h)]

(***************************************************************************)
(* Entries of the trace.                                                   *)
(***************************************************************************)
Call(l, fn, args) == [type |-> "call", op |-> l.op, h |-> l.h, fn |-> fn, args |-> args]
PreventDefault == [type |-> "prevent_default"]
Capture(id, ok) == [type |-> "capture", id |-> id, ok |-> ok]
Panic(msg) == [type |-> "panic", msg |-> msg]

(***************************************************************************)
(* The closures the on_* methods attach.  l is the listener: the handle h  *)
(* that owns it, the field it was made for and, for on_cursor_move, the    *)
(* prevent_default flag it captured.  Each returns the trace of one run.   *)
(***************************************************************************)
\* on_cursor_leave without the pointer-type test
cursor_leave_closure_unfiltered(l, event) ==
    <<Call(l, "handler",
           [id |-> pointer_id(event), modifiers |-> mouse_modifiers(event)])>>

\* closure of on_cursor_leave
cursor_leave_closure(l, event) ==
    IF pointer_type(event) # "mouse" THEN <<>>
    ELSE <<Call(l, "handler",
                [id |-> pointer_id(event), modifiers |-> mouse_modifiers(event)])>>

\* closure of on_cursor_enter
cursor_enter_closure(l, event) ==
    IF pointer_type(event) # "mouse" THEN <<>>
    ELSE <<Call(l, "handler",
                [id |-> pointer_id(event), modifiers |-> mouse_modifiers(event)])>>

\* closure of on_mouse_release
\* on_mouse_release also releasing the pointer capture of a mouse
mouse_release_closure_releases(l, event) ==
    CASE pointer_type(event) = "touch" ->
           <<Call(l, "touch_handler",
                  [id |-> pointer_id(event),
                   position |-> to_physical(touch_position(event)),
                   force |-> Normalized(pressure(event))])>>
      [] pointer_type(event) = "mouse" ->
           IF mouse_button(event) = NoButton
           THEN <<Panic("no mouse button released")>>
           ELSE <<Call(l, "mouse_handler",
                       [id |-> pointer_id(event),
                        button |-> mouse_button(event),
                        modifiers |-> mouse_modifiers(event)]),
                  [type |-> "release", id |-> pointer_id(event)]>>
      [] OTHER -> <<>>

mouse_release_closure(l, event) ==
    CASE pointer_type(event) = "touch" ->
           <<Call(l, "touch_handler",
                  [id |-> pointer_id(event),
                   position |-> to_physical(touch_position(event)),
                   force |-> Normalized(pressure(event))])>>
      [] pointer_type(event) = "mouse" ->
           IF mouse_button(event) = NoButton
           THEN <<Panic("no mouse button released")>>
           ELSE <<Call(l, "mouse_handler",
                       [id |-> pointer_id(event),
                        button |-> mouse_button(event),
                        modifiers |-> mouse_modifiers(event)])>>
      [] OTHER -> <<>>

\* on_mouse_press requesting capture before it calls the handler
mouse_press_closure_capture_first(l, event, capture_ok) ==
    CASE pointer_type(event) = "touch" ->
           <<Call(l, "touch_handler",
                  [id |-> pointer_id(event),
                   position |-> to_physical(touch_position(event)),
                   force |-> Normalized(pressure(event))])>>
      [] pointer_type(event) = "mouse" ->
           IF mouse_button(event) = NoButton
           THEN <<Capture(pointer_id(event), capture_ok),
                  Panic("no mouse button pressed")>>
           ELSE <<Capture(pointer_id(event), capture_ok),
                  Call(l, "mouse_handler",
                       [id |-> pointer_id(event),
                        position |-> to_physical(mouse_position(event)),
                        button |-> mouse_button(event),
                        modifiers |-> mouse_modifiers(event)])>>
      [] OTHER -> <<>>

\* on_mouse_press with unwrap_or(MouseButton::Left) in place of expect
mouse_press_closure_default_button(l, event, capture_ok) ==
    CASE pointer_type(event) = "touch" ->
           <<Call(l, "touch_handler",
                  [id |-> pointer_id(event),
                   position |-> to_physical(touch_position(event)),
                   force |-> Normalized(pressure(event))])>>
      [] pointer_type(event) = "mouse" ->
           <<Call(l, "mouse_handler",
                  [id |-> pointer_id(event),
                   position |-> to_physical(mouse_position(event)),
                   button |-> IF mouse_button(event) = NoButton THEN "Left"
                              ELSE mouse_button(event),
                   modifiers |-> mouse_modifiers(event)]),
             Capture(pointer_id(event), capture_ok)>>
      [] OTHER -> <<>>

\* closure of on_mouse_press; capture_ok is the outcome of set_pointer_capture
\* on_mouse_press unwrapping the result of set_pointer_capture
mouse_press_closure_capture_unwrap(l, event, capture_ok) ==
    CASE pointer_type(event) = "touch" ->
           <<Call(l, "touch_handler",
                  [id |-> pointer_id(event),
                   position |-> to_physical(touch_position(event)),
                   force |-> Normalized(pressure(event))])>>
      [] pointer_type(event) = "mouse" ->
           IF mouse_button(event) = NoButton
           THEN <<Panic("no mouse button pressed")>>
           ELSE <<Call(l, "mouse_handler",
                       [id |-> pointer_id(event),
                        position |-> to_physical(mouse_position(event)),
                        button |-> mouse_button(event),
                        modifiers |-> mouse_modifiers(event)]),
                  Capture(pointer_id(event), capture_ok)>>
                \o (IF capture_ok THEN <<>>
                    ELSE <<Panic("set_pointer_capture failed")>>)
      [] OTHER -> <<>>

mouse_press_closure(l, event, capture_ok) ==
    CASE pointer_type(event) = "touch" ->
           <<Call(l, "touch_handler",
                  [id |-> pointer_id(event),
                   position |-> to_physical(touch_position(event)),
                   force |-> Normalized(pressure(event))])>>
      [] pointer_type(event) = "mouse" ->
           IF mouse_button(event) = NoButton
           THEN <<Panic("no mouse button pressed")>>
           ELSE <<Call(l, "mouse_handler",
                       [id |-> pointer_id(event),
                        position |-> to_physical(mouse_position(event)),
                        button |-> mouse_button(event),
                        modifiers |-> mouse_modifiers(event)]),
                  Capture(pointer_id(event), capture_ok)>>
      [] OTHER -> <<>>

\* the expansion without `.filter(|events| events.length() != 0)`
coalesced_or_root_no_filter(event) ==
    IF event.has_coalesced THEN event.coalesced ELSE <<event>>

\* the expansion chaining the root in front of the batch
coalesced_or_root_chained(event) ==
    IF event.has_coalesced /\ Len(event.coalesced) # 0
    THEN <<event>> \o event.coalesced
    ELSE <<event>>

\* the batch iterated from its last sub-event to its first
coalesced_or_root_reversed(event) ==
    IF event.has_coalesced /\ Len(event.coalesced) # 0
    THEN [k \in DOMAIN event.coalesced |->
             event.coalesced[Len(event.coalesced) + 1 - k]]
    ELSE <<event>>

\* the events the loop of on_cursor_move iterates: the batch, or the root alone
coalesced_or_root(event) ==
    IF event.has_coalesced /\ Len(event.coalesced) # 0
    THEN event.coalesced
    ELSE <<event>>

\* the mouse state on_cursor_move caches from the root event (None for touch)
cached_mouse(event) ==
    IF pointer_type(event) = "mouse"
    THEN <<mouse_modifiers(event), mouse_buttons(event), mouse_button(event)>>
    ELSE <<>>

\* the arguments taken from the event of the loop instead of the cache
mouse_move_args_uncached(id, mouse, event) ==
    [id |-> pointer_id(event),
     position |-> to_physical(mouse_position(event)),
     delta |-> to_physical(mouse_delta(event)),
     modifiers |-> mouse_modifiers(event),
     buttons |-> mouse_buttons(event),
     button |-> mouse_button(event)]

\* the arguments on_cursor_move passes to mouse_handler for one event of the loop:
\* id and (modifiers, buttons, button) are the values cached from the root event
mouse_move_args(id, mouse, event) ==
    [id |-> id,
     position |-> to_physical(mouse_position(event)),
     delta |-> to_physical(mouse_delta(event)),
     modifiers |-> mouse[1],
     buttons |-> mouse[2],
     button |-> mouse[3]]

\* the touch arguments with the id read from the event of the loop
touch_move_args_own_id(id, event) ==
    [id |-> pointer_id(event),
     position |-> to_physical(touch_position(event)),
     force |-> Normalized(pressure(event))]

\* the arguments on_cursor_move passes to touch_handler for one event of the loop
touch_move_args(id, event) ==
    [id |-> id,
     position |-> to_physical(touch_position(event)),
     force |-> Normalized(pressure(event))]

\* the loop of on_cursor_move over events[k..]; dbg is cfg(debug_assertions)
RECURSIVE cursor_move_loop(_, _, _, _, _, _)
cursor_move_loop(l, id, mouse, events, k, dbg) ==
    IF k > Len(events) THEN <<>>
    ELSE LET event == events[k] IN
         IF dbg /\ id # pointer_id(event)
         THEN <<Panic("assertion failed: id == event.pointer_id()")>>
         ELSE IF dbg /\ ((mouse = <<>>) # (pointer_type(event) = "touch"))
         THEN <<Panic("assertion failed: mouse.is_none() == (pointer_type == touch)")>>
         ELSE IF mouse # <<>>
         THEN IF dbg /\ mouse[1] # mouse_modifiers(event)
              THEN <<Panic("assertion failed: modifiers == mouse_modifiers(event)")>>
              ELSE IF dbg /\ mouse[2] # mouse_buttons(event)
              THEN <<Panic("assertion failed: buttons == mouse_buttons(event)")>>
              ELSE <<Call(l, "mouse_handler", mouse_move_args(id, mouse, event))>>
                   \o cursor_move_loop(l, id, mouse, events, k + 1, dbg)
         ELSE <<Call(l, "touch_handler", touch_move_args(id, event))>>
              \o cursor_move_loop(l, id, mouse, events, k + 1, dbg)

\* on_cursor_move without the `_ => return` arm
cursor_move_closure_no_filter(l, event, dbg) ==
    (IF pointer_type(event) = "touch" /\ l.prevent_default
     THEN <<PreventDefault>> ELSE <<>>)
    \o cursor_move_loop(l, pointer_id(event), cached_mouse(event),
                        coalesced_or_root(event), 1, dbg)

\* on_cursor_move calling prevent_default outside the "touch" arm
cursor_move_closure_prevent_any(l, event, dbg) ==
    IF pointer_type(event) \notin {"touch", "mouse"} THEN <<>>
    ELSE (IF l.prevent_default THEN <<PreventDefault>> ELSE <<>>)
         \o cursor_move_loop(l, pointer_id(event), cached_mouse(event),
                             coalesced_or_root(event), 1, dbg)

\* closure of on_cursor_move
cursor_move_closure(l, event, dbg) ==
    IF pointer_type(event) \notin {"touch", "mouse"} THEN <<>>
    ELSE (IF pointer_type(event) = "touch" /\ l.prevent_default
          THEN <<PreventDefault>> ELSE <<>>)
         \o cursor_move_loop(l, pointer_id(event), cached_mouse(event),
                             coalesced_or_root(event), 1, dbg)

\* closure of on_touch_cancel
touch_cancel_closure(l, event) ==
    IF pointer_type(event) = "touch"
    THEN <<Call(l, "handler",
                [id |-> pointer_id(event),
                 position |-> to_physical(touch_position(event)),
                 force |-> Normalized(pressure(event))])>>
    ELSE <<>>

\* one run of the closure of listener l
RunClosure(l, event, capture_ok, dbg) ==
    CASE l.op = "on_cursor_leave" -> cursor_leave_closure(l, event)
      [] l.op = "on_cursor_enter" -> cursor_enter_closure(l, event)
      [] l.op = "on_pointer_release" -> mouse_release_closure(l, event)
      [] l.op = "on_pointer_press" -> mouse_press_closure(l, event, capture_ok)
      [] l.op = "on_cursor_move" -> cursor_move_closure(l, event, dbg)
      [] l.op = "on_touch_cancel" -> touch_cancel_closure(l, event)

\* the host runs the closures attached to the event's channel, in order
RECURSIVE Dispatch(_, _, _, _)
Dispatch(ls, event, capture_ok, dbg) ==
    IF ls = <<>> THEN <<>>
    ELSE RunClosure(Head(ls), event, capture_ok, dbg)
         \o Dispatch(Tail(ls), event, capture_ok, dbg)

(***************************************************************************)
(* The state after PointerHandler::new().                                  *)
(***************************************************************************)
new == [f \in Fields |-> None]

Init ==
    /\ handler = new
    /\ listeners = [n \in EventNames |-> <<>>]
    /\ installs = 0
    /\ opOf = <<>>
    /\ pc = "idle"
    /\ tmp = None
    /\ inflight = NoEvent
    /\ last = NoEvent
    /\ trace = <<>>
    /\ torn = {}
    /\ teardowns = 0
    /\ stale = FALSE
    /\ debug_assertions \in BOOLEAN
    /\ arrivals = <<>>
    /\ served = 0
    /\ log = <<>>

(***************************************************************************)
(* The registry's operations run between deliveries: the component is      *)
(* single-threaded and a delivery runs to its end.                         *)
(*                                                                         *)
(* Registration.  `self.field = Some(canvas_common.add_event(..))`         *)
(* evaluates the right-hand side first: the new closure is attached, and   *)
(* only the assignment drops the handle the field held.  The two steps are *)
(* separate states of the model; nothing else runs between them (the       *)
(* component is single-threaded).                                          *)
(***************************************************************************)
\* the host event each field's closure is attached to
EventName(field) ==
    CASE field = "on_cursor_leave" -> "pointerout"
      [] field = "on_cursor_enter" -> "pointerover"
      [] field = "on_pointer_release" -> "pointerup"
      [] field = "on_pointer_press" -> "pointerdown"
      [] field = "on_cursor_move" -> "pointermove"
      [] field = "on_touch_cancel" -> "pointercancel"

\* right-hand side: make the closure, attach it, return the handle
Attach(field, prevent_default, user) ==
    /\ pc = "idle"
    /\ last = NoEvent
    /\ installs < MaxInstalls
    /\ LET h == installs + 1
           l == [h |-> h, op |-> field, prevent_default |-> prevent_default]
       IN  /\ listeners' = IF user THEN add_user_event(listeners, EventName(field), l)
                           ELSE add_event(listeners, EventName(field), l)
           /\ installs' = h
           /\ opOf' = Append(opOf, field)
           /\ tmp' = h
    /\ pc' = "assign"
    /\ torn' = torn \ {field}
    /\ teardowns' = 0
    /\ UNCHANGED stream
    /\ UNCHANGED <<handler, inflight, last, trace, stale, debug_assertions>>

\* an assignment that leaks the old handle instead of dropping it
Dropped_leak(old) == {}

\* the handles an assignment `field = Some(new)` drops: the old value
Dropped(old) == {old} \ {None}

RECURSIVE drop_all(_, _)
drop_all(ls, hs) ==
    IF hs = {} THEN ls
    ELSE LET h == CHOOSE x \in hs : TRUE
         IN  drop_all(drop_handle(ls, h), hs \ {h})

\* left-hand side: store the handle in its field, dropping the old one
\* the assignment of on_cursor_enter storing into self.on_cursor_leave
Assign_wrong_field ==
    /\ pc = "assign"
    /\ LET field == IF opOf[tmp] = "on_cursor_enter" THEN "on_cursor_leave"
                    ELSE opOf[tmp]
       IN  /\ handler' = [handler EXCEPT ![field] = tmp]
           /\ listeners' = drop_all(listeners, Dropped(handler[field]))
    /\ tmp' = None
    /\ pc' = "idle"
    /\ UNCHANGED stream
    /\ UNCHANGED <<installs, opOf, inflight, last, trace, torn, teardowns, stale,
                   debug_assertions>>

Assign ==
    /\ pc = "assign"
    /\ LET field == opOf[tmp]
       IN  /\ handler' = [handler EXCEPT ![field] = tmp]
           /\ listeners' = drop_all(listeners, Dropped(handler[field]))
    /\ tmp' = None
    /\ pc' = "idle"
    /\ UNCHANGED stream
    /\ UNCHANGED <<installs, opOf, inflight, last, trace, torn, teardowns, stale,
                   debug_assertions>>

on_cursor_leave == Attach("on_cursor_leave", FALSE, FALSE)

on_cursor_enter == Attach("on_cursor_enter", FALSE, FALSE)

on_mouse_release == Attach("on_pointer_release", FALSE, TRUE)

on_mouse_press == Attach("on_pointer_press", FALSE, TRUE)

on_cursor_move == \E prevent_default \in BOOLEAN :
    Attach("on_cursor_move", prevent_default, FALSE)

on_touch_cancel == Attach("on_touch_cancel", FALSE, FALSE)

\* remove_listeners that forgets the last field, on_touch_cancel
remove_listeners_forgets_cancel ==
    /\ pc = "idle"
    /\ last = NoEvent
    /\ handler' = [f \in Fields |-> IF f = "on_touch_cancel" THEN handler[f] ELSE None]
    /\ listeners' = drop_all(listeners,
                             {handler[f] : f \in Fields \ {"on_touch_cancel"}} \ {None})
    /\ torn' = Fields
    /\ teardowns' = IF teardowns = 0 THEN 1 ELSE 2
    /\ stale' = (inflight # NoEvent)
    /\ UNCHANGED stream
    /\ UNCHANGED <<installs, opOf, pc, tmp, inflight, last, trace, debug_assertions>>

\* remove_listeners: every field becomes None, dropping the handle it held
remove_listeners ==
    /\ pc = "idle"
    /\ last = NoEvent
    /\ handler' = [f \in Fields |-> None]
    /\ listeners' = drop_all(listeners, {handler[f] : f \in Fields} \ {None})
    /\ torn' = Fields
    /\ teardowns' = IF teardowns = 0 THEN 1 ELSE 2
    /\ stale' = (inflight # NoEvent)
    /\ UNCHANGED stream
    /\ UNCHANGED <<installs, opOf, pc, tmp, inflight, last, trace, debug_assertions>>

(***************************************************************************)
(* The host.                                                               *)
(***************************************************************************)
\* the host raises an event: it is queued for delivery
Raise(E) ==
    /\ pc = "idle"
    /\ last = NoEvent
    /\ inflight = NoEvent
    /\ \E event \in E : inflight' = event
    /\ stale' = FALSE
    /\ UNCHANGED stream
    /\ UNCHANGED <<handler, listeners, installs, opOf, pc, tmp, last, trace, torn,
                   teardowns, debug_assertions>>

\* the host delivers the queued event to the closures attached to its channel
Deliver ==
    /\ pc = "idle"
    /\ inflight # NoEvent
    /\ \E capture_ok \in BOOLEAN :
          trace' = Dispatch(listeners[inflight.name], inflight, capture_ok,
                            debug_assertions)
    /\ last' = inflight
    /\ inflight' = NoEvent
    /\ UNCHANGED stream
    /\ UNCHANGED <<handler, listeners, installs, opOf, pc, tmp, torn, teardowns, stale,
                   debug_assertions>>

\* the closures have returned: the host is done with the event, and the
\* record of what its delivery did is closed
Return ==
    /\ last # NoEvent
    /\ last' = NoEvent
    /\ trace' = <<>>
    /\ stale' = FALSE
    /\ UNCHANGED stream
    /\ UNCHANGED <<handler, listeners, installs, opOf, pc, tmp, inflight, torn, teardowns,
                   debug_assertions>>

HostRaise == Raise(Events)

Next ==
    \/ on_cursor_leave
    \/ on_cursor_enter
    \/ on_mouse_release
    \/ on_mouse_press
    \/ on_cursor_move
    \/ on_touch_cancel
    \/ Assign
    \/ remove_listeners
    \/ HostRaise
    \/ Deliver
    \/ Return

Spec == Init /\ [][Next]_vars

(***************************************************************************)
(* The expansion of one pointermove delivery.  The surface has registered  *)
(* its move handlers and the host has raised a pointermove event: any      *)
(* root event with any coalesced batch of at most MaxBatch events.         *)
(***************************************************************************)
InitMove ==
    /\ handler = [new EXCEPT !["on_cursor_move"] = 1]
    /\ \E prevent_default \in BOOLEAN :
          listeners = add_event([n \in EventNames |-> <<>>], "pointermove",
                                [h |-> 1, op |-> "on_cursor_move",
                                 prevent_default |-> prevent_default])
    /\ installs = 1
    /\ opOf = <<"on_cursor_move">>
    /\ pc = "idle"
    /\ tmp = None
    /\ inflight \in MoveEvents
    /\ last = NoEvent
    /\ trace = <<>>
    /\ torn = {}
    /\ teardowns = 0
    /\ stale = FALSE
    /\ debug_assertions \in BOOLEAN
    /\ arrivals = <<>>
    /\ served = 0
    /\ log = <<>>

NextMove == Deliver \/ Return

SpecMove == InitMove /\ [][NextMove]_vars

(***************************************************************************)
(* A stream of pointermove events delivered to a registered move closure.  *)
(***************************************************************************)
\* the entries of one delivery, each marked with the arrival it belongs to
Tag(n, t) == [i \in DOMAIN t |-> [n |-> n, entry |-> t[i]]]

InitOrder ==
    /\ handler = [new EXCEPT !["on_cursor_move"] = 1]
    /\ \E prevent_default \in BOOLEAN :
          listeners = add_event([n \in EventNames |-> <<>>], "pointermove",
                                [h |-> 1, op |-> "on_cursor_move",
                                 prevent_default |-> prevent_default])
    /\ installs = 1
    /\ opOf = <<"on_cursor_move">>
    /\ pc = "idle"
    /\ tmp = None
    /\ inflight = NoEvent
    /\ last = NoEvent
    /\ trace = <<>>
    /\ torn = {}
    /\ teardowns = 0
    /\ stale = FALSE
    /\ debug_assertions \in BOOLEAN
    /\ arrivals = <<>>
    /\ served = 0
    /\ log = <<>>

\* the host raises a pointermove event; it waits behind the earlier ones
HostArrive ==
    /\ Len(arrivals) < MaxArrivals
    /\ \E event \in OrderEvents : arrivals' = Append(arrivals, event)
    /\ UNCHANGED <<handler, listeners, installs, opOf, pc, tmp, inflight, last, trace,
                   torn, teardowns, stale, debug_assertions, served, log>>

\* the host's next dispatch turn: the oldest waiting event is delivered to
\* the closures of its channel, which run to completion
DeliverNext ==
    /\ pc = "idle"
    /\ last = NoEvent
    /\ served < Len(arrivals)
    /\ LET event == arrivals[served + 1]
       IN  /\ trace' = Dispatch(listeners[event.name], event, TRUE, debug_assertions)
           /\ last' = event
    /\ served' = served + 1
    /\ log' = log \o Tag(served + 1, trace')
    /\ UNCHANGED <<handler, listeners, installs, opOf, pc, tmp, inflight, torn,
                   teardowns, stale, debug_assertions, arrivals>>

NextOrder == HostArrive \/ DeliverNext \/ Return

SpecOrder == InitOrder /\ [][NextOrder]_vars

(***************************************************************************)
(* Properties.                                                             *)
(***************************************************************************)
\* a delivery has happened and `trace` is what it did
Delivered == last # NoEvent

\* the field whose closure listens to the channel `name`
FieldOf(name) == CHOOSE f \in Fields : EventName(f) = name

\* positions of the handler invocations in a trace
CallIdx(t) == {i \in DOMAIN t : t[i].type = "call"}

\* the handler invocations of a trace, in order
CallsOf(t) == SelectSeq(t, LAMBDA e : e.type = "call")

AllDetached == \A n \in EventNames : listeners[n] = <<>>

\* C1: a delivery, on any of the six channels, whose pointer type is neither
\* "mouse" nor "touch" invokes no handler, requests no pointer capture and
\* applies no prevent_default, whatever has been registered.
C1_OtherTypeDropped ==
    (Delivered /\ last.ptype \notin {"mouse", "touch"}) =>
        \A i \in DOMAIN trace : trace[i].type \notin {"call", "capture", "prevent_default"}

\* a pen pointermove with a coalesced batch reached a registered move closure
\* that prevents default, and nothing happened
C1_Witness ==
    /\ Delivered
    /\ last.name = "pointermove"
    /\ last.ptype = "pen"
    /\ last.coalesced # <<>>
    /\ handler["on_cursor_move"] # None
    /\ Len(listeners["pointermove"]) = 1
    /\ listeners["pointermove"][1].prevent_default
    /\ trace = <<>>

\* C2: once a handler H2 has been registered for a field after a handler H1
\* of the same field, no delivery invokes H1 again, and every invocation a
\* delivery makes is of the handle the field of its channel holds now.
C2_Replacement ==
    \A i \in CallIdx(trace) :
        /\ trace[i].h = handler[FieldOf(last.name)]
        /\ \A h1 \in 1..installs :
              (\E h2 \in (h1 + 1)..installs : opOf[h2] = opOf[h1]) => trace[i].h # h1

\* two registrations for the same field, then a delivery that invoked the second
C2_Witness ==
    /\ installs >= 2
    /\ opOf[1] = opOf[2]
    /\ torn = {}
    /\ Delivered
    /\ last.name = EventName(opOf[2])
    /\ \E i \in CallIdx(trace) : trace[i].h = 2

\* C3: after remove_listeners, and until a field is registered again, the
\* field is None, nothing is attached to its channel, and a delivery on that
\* channel (raised before or after the call) invokes no handler.
C3_Teardown ==
    /\ (teardowns >= 1 => handler = new /\ AllDetached)
    /\ \A f \in torn :
          /\ handler[f] = None
          /\ listeners[EventName(f)] = <<>>
          /\ (Delivered /\ last.name = EventName(f)) => CallIdx(trace) = {}

\* a press handler was registered, a touch pointerdown was raised,
\* remove_listeners ran, and the pointerdown delivered afterwards invoked nothing
C3_Witness ==
    /\ torn = Fields
    /\ stale
    /\ \E h \in 1..installs : opOf[h] = "on_pointer_press"
    /\ Delivered
    /\ last.name = "pointerdown"
    /\ last.ptype = "touch"
    /\ trace = <<>>

\* C4: a remove_listeners call that follows another one, or that finds the
\* registry empty, changes nothing: all six fields are None before and after
\* it, and what is attached to the canvas stays as it is.
C4_IdempotentTeardown ==
    [][(teardowns' >= 1 /\ (teardowns >= 1 \/ handler = new)) =>
          /\ handler' = handler
          /\ listeners' = listeners
          /\ handler' = new]_vars

\* remove_listeners ran twice in a row after a registration
C4_Witness ==
    /\ teardowns = 2
    /\ installs >= 1
    /\ handler = new

\* C5 as stated: at most one closure is attached to each channel in every
\* state, the states inside a registration included.
C5_AtMostOneAlways ==
    \A n \in EventNames : Len(listeners[n]) <= 1

\* C5, amended: outside a registration each channel has at most one closure
\* attached, the one whose handle its field holds; inside a registration that
\* replaces a handler the channel has two, the old one and the new one, until
\* the assignment drops the old handle.
C5_AtMostOneBetweenCalls ==
    /\ pc = "idle" =>
          \A f \in Fields :
              listeners[EventName(f)] =
                  IF handler[f] = None THEN <<>>
                  ELSE <<listeners[EventName(f)][1]>>
    /\ pc = "idle" =>
          \A f \in Fields :
              handler[f] # None => listeners[EventName(f)][1].h = handler[f]
    /\ \A n \in EventNames : Len(listeners[n]) <= 2
    /\ pc = "assign" =>
          \A f \in Fields :
              Len(listeners[EventName(f)]) = 2 => (f = opOf[tmp] /\ handler[f] # None)

\* a handler was replaced: its channel has one closure again, the new one
C5_Witness ==
    /\ pc = "idle"
    /\ installs >= 2
    /\ opOf[1] = opOf[2]
    /\ handler[opOf[2]] = 2
    /\ Len(listeners[EventName(opOf[2])]) = 1

\* a pointermove of a mouse or a touch was delivered to the move closure
MoveDelivered ==
    /\ Delivered
    /\ last.name = "pointermove"
    /\ last.ptype \in {"mouse", "touch"}
    /\ handler["on_cursor_move"] # None

\* the coalesced batch of the delivered event is not empty
HasBatch == last.has_coalesced /\ last.coalesced # <<>>

\* what mouse_handler of on_cursor_move gets when every argument is e's own
OwnMouseArgs(e) ==
    [id |-> e.id, position |-> e.x * scale_factor, delta |-> e.dx * scale_factor,
     modifiers |-> e.mods, buttons |-> e.buttons, button |-> e.button]

\* what touch_handler gets when every argument is e's own
OwnTouchArgs(e) ==
    [id |-> e.id, position |-> e.x * scale_factor, force |-> <<"Normalized", e.pressure>>]

\* C6: a mouse or touch pointermove whose host has no coalesced-events
\* accessor, or whose batch is empty, makes exactly one handler invocation,
\* with the root event's own id, position, delta or force, modifiers,
\* buttons and button.
C6_Singleton ==
    (MoveDelivered /\ ~HasBatch) =>
        /\ Len(CallsOf(trace)) = 1
        /\ LET c == CallsOf(trace)[1]
           IN  IF last.ptype = "mouse"
               THEN c.fn = "mouse_handler" /\ c.args = OwnMouseArgs(last)
               ELSE c.fn = "touch_handler" /\ c.args = OwnTouchArgs(last)

\* the host has the accessor and returned an empty batch for a mouse move
C6_Witness ==
    /\ MoveDelivered
    /\ last.ptype = "mouse"
    /\ last.has_coalesced
    /\ last.coalesced = <<>>
    /\ last.button # NoButton
    /\ Len(CallsOf(trace)) = 1
    /\ CallsOf(trace)[1].args.position = 20

\* the k-th invocation carries the position, and the delta or pressure, of e
CarriesSample(c, e) ==
    /\ c.args.position = e.x * scale_factor
    /\ IF c.fn = "mouse_handler"
       THEN c.args.delta = e.dx * scale_factor
       ELSE c.args.force = <<"Normalized", e.pressure>>

\* C7 as stated: a batch of N > 0 sub-events makes exactly N invocations, the
\* k-th with the k-th sub-event's position and delta or pressure.
C7_ExactlyN ==
    (MoveDelivered /\ HasBatch) =>
        /\ Len(CallsOf(trace)) = Len(last.coalesced)
        /\ \A k \in 1..Len(last.coalesced) :
              CarriesSample(CallsOf(trace)[k], last.coalesced[k])

\* C7, amended: the invocations are made for the sub-events in host order,
\* the k-th with the k-th sub-event's position and delta or pressure, and the
\* root is never emitted; there are exactly N of them unless a debug
\* assertion stops the delivery, which happens only with debug assertions
\* enabled.
C7_BatchInOrder ==
    (MoveDelivered /\ HasBatch) =>
        LET calls == CallsOf(trace)
            stopped == \E i \in DOMAIN trace : trace[i].type = "panic"
        IN  /\ Len(calls) <= Len(last.coalesced)
            /\ \A k \in 1..Len(calls) : CarriesSample(calls[k], last.coalesced[k])
            /\ ~stopped => Len(calls) = Len(last.coalesced)
            /\ stopped => debug_assertions /\ Len(calls) < Len(last.coalesced)

\* a touch move with two sub-events at positions other than each other's and
\* one other than the root's: two invocations, in batch order
C7_Witness ==
    /\ MoveDelivered
    /\ last.ptype = "touch"
    /\ Len(last.coalesced) = 2
    /\ last.coalesced[1].x # last.x
    /\ last.coalesced[1].x # last.coalesced[2].x
    /\ Len(CallsOf(trace)) = 2
    /\ CallsOf(trace)[1].args.position = last.coalesced[1].x * scale_factor
    /\ CallsOf(trace)[2].args.position = last.coalesced[2].x * scale_factor

\* C8 as stated: with debug assertions disabled, every argument of the
\* invocation for a sub-event is the sub-event's own.
C8_AllFromSubEvent ==
    (MoveDelivered /\ HasBatch /\ ~debug_assertions) =>
        \A k \in 1..Len(CallsOf(trace)) :
            CallsOf(trace)[k].args =
                IF last.ptype = "mouse" THEN OwnMouseArgs(last.coalesced[k])
                ELSE OwnTouchArgs(last.coalesced[k])

\* C8, amended: with debug assertions disabled, the position and the delta
\* (mouse) or pressure (touch) of the invocation for a sub-event are the
\* sub-event's own; the id and, for a mouse, modifiers, buttons and button
\* are the values read from the root event before the loop.
C8_SampleFromSubEvent ==
    (MoveDelivered /\ HasBatch /\ ~debug_assertions) =>
        /\ Len(CallsOf(trace)) = Len(last.coalesced)
        /\ \A k \in 1..Len(CallsOf(trace)) :
              LET c == CallsOf(trace)[k]
                  sub == last.coalesced[k]
              IN  /\ CarriesSample(c, sub)
                  /\ c.args.id = last.id
                  /\ last.ptype = "mouse" =>
                        /\ c.args.modifiers = last.mods
                        /\ c.args.buttons = last.buttons
                        /\ c.args.button = last.button

\* a release build, a mouse move whose sub-event has another id, other
\* modifiers and another position than the root: the invocation has the
\* sub-event's position with the root's id and modifiers
C8_Witness ==
    /\ MoveDelivered
    /\ ~debug_assertions
    /\ last.ptype = "mouse"
    /\ Len(last.coalesced) = 1
    /\ last.coalesced[1].id # last.id
    /\ last.coalesced[1].mods # last.mods
    /\ last.coalesced[1].x # last.x
    /\ Len(CallsOf(trace)) = 1
    /\ CallsOf(trace)[1].args.id = last.id
    /\ CallsOf(trace)[1].args.modifiers = last.mods
    /\ CallsOf(trace)[1].args.position = last.coalesced[1].x * scale_factor

\* C9: a mouse pointerdown with an identifiable button invokes mouse_press
\* exactly once, with the event's pointer id, and then issues exactly one
\* pointer-capture request, for the same id; nothing precedes the invocation.
C9_CaptureAfterPress ==
    (/\ Delivered
     /\ last.name = "pointerdown"
     /\ last.ptype = "mouse"
     /\ last.button # NoButton
     /\ handler["on_pointer_press"] # None) =>
        /\ Len(trace) = 2
        /\ trace[1].type = "call"
        /\ trace[1].fn = "mouse_handler"
        /\ trace[1].h = handler["on_pointer_press"]
        /\ trace[1].args.id = last.id
        /\ trace[1].args.button = last.button
        /\ trace[2].type = "capture"
        /\ trace[2].id = last.id

\* a press of pointer 7 whose capture request was refused
C9_Witness ==
    /\ Delivered
    /\ last.name = "pointerdown"
    /\ last.ptype = "mouse"
    /\ last.id = 7
    /\ Len(trace) = 2
    /\ trace[1].type = "call"
    /\ trace[2] = Capture(7, FALSE)

\* C10: a mouse pointerdown or pointerup without an identifiable button
\* aborts the delivery: the closure panics, no handler is invoked and no
\* capture request is issued.
C10_MissingButtonFatal ==
    (/\ Delivered
     /\ last.name \in {"pointerdown", "pointerup"}
     /\ last.ptype = "mouse"
     /\ last.button = NoButton
     /\ handler[FieldOf(last.name)] # None) =>
        /\ Len(trace) = 1
        /\ trace[1].type = "panic"

\* a mouse pointerdown without a button reached the press closure
C10_Witness ==
    /\ Delivered
    /\ last.name = "pointerdown"
    /\ last.ptype = "mouse"
    /\ last.button = NoButton
    /\ handler["on_pointer_press"] # None
    /\ trace = <<Panic("no mouse button pressed")>>

\* C11: a pointerover or pointerout delivery invokes its handler only for a
\* mouse, a pointercancel delivery only for a touch, and a pointerdown,
\* pointerup or pointermove delivery invokes the mouse handler only for a
\* mouse and the touch handler only for a touch, never both.
C11_DeviceRouting ==
    Delivered =>
        \A i \in CallIdx(trace) :
            CASE last.name \in {"pointerover", "pointerout"} ->
                   last.ptype = "mouse" /\ trace[i].fn = "handler"
              [] last.name = "pointercancel" ->
                   last.ptype = "touch" /\ trace[i].fn = "handler"
              [] OTHER ->
                   \/ last.ptype = "mouse" /\ trace[i].fn = "mouse_handler"
                   \/ last.ptype = "touch" /\ trace[i].fn = "touch_handler"

\* a touch pointerout reached a registered leave closure and nothing fired
C11_Witness ==
    /\ Delivered
    /\ last.name = "pointerout"
    /\ last.ptype = "touch"
    /\ handler["on_cursor_leave"] # None
    /\ Len(listeners["pointerout"]) = 1
    /\ trace = <<>>

\* C12: all mouse_move invocations of one mouse pointermove delivery carry
\* the same modifiers and the same buttons, whatever the batch holds.
C12_SameMouseState ==
    (MoveDelivered /\ last.ptype = "mouse") =>
        \A i, j \in CallIdx(trace) :
            /\ trace[i].args.modifiers = trace[j].args.modifiers
            /\ trace[i].args.buttons = trace[j].args.buttons

\* a release build, a mouse move whose two sub-events have different
\* modifiers and buttons: two invocations
C12_Witness ==
    /\ MoveDelivered
    /\ ~debug_assertions
    /\ last.ptype = "mouse"
    /\ Len(last.coalesced) = 2
    /\ last.coalesced[1].mods # last.coalesced[2].mods
    /\ last.coalesced[1].buttons # last.coalesced[2].buttons
    /\ Len(CallsOf(trace)) = 2

\* C13: every invocation of one pointermove delivery carries the root
\* event's pointer id and goes to the handler of the root's device kind:
\* mouse_handler for a mouse root, touch_handler for a touch root.
C13_RootIdAndKind ==
    MoveDelivered =>
        \A i \in CallIdx(trace) :
            /\ trace[i].args.id = last.id
            /\ trace[i].fn = IF last.ptype = "mouse" THEN "mouse_handler"
                             ELSE "touch_handler"

\* a release build, a touch move whose sub-event is a mouse event of another
\* pointer: touch_handler is invoked with the root's id
C13_Witness ==
    /\ MoveDelivered
    /\ ~debug_assertions
    /\ last.ptype = "touch"
    /\ Len(last.coalesced) = 1
    /\ last.coalesced[1].id # last.id
    /\ last.coalesced[1].ptype = "mouse"
    /\ Len(CallsOf(trace)) = 1
    /\ CallsOf(trace)[1].fn = "touch_handler"
    /\ CallsOf(trace)[1].args.id = last.id

\* positions of the prevent_default calls in a trace
PreventIdx(t) == {i \in DOMAIN t : t[i].type = "prevent_default"}

\* C14: a pointermove delivery applies prevent_default exactly once, before
\* any handler invocation, if the root event is a touch and the move handler
\* was registered with prevent_default = true; otherwise it never applies it.
C14_PreventDefaultOnce ==
    (Delivered /\ last.name = "pointermove" /\ handler["on_cursor_move"] # None) =>
        IF last.ptype = "touch" /\ listeners["pointermove"][1].prevent_default
        THEN PreventIdx(trace) = {1}
        ELSE PreventIdx(trace) = {}

\* a touch move with two sub-events, registered with prevent_default:
\* prevent_default once, then the two invocations
C14_Witness ==
    /\ MoveDelivered
    /\ last.ptype = "touch"
    /\ listeners["pointermove"][1].prevent_default
    /\ Len(last.coalesced) = 2
    /\ Len(trace) = 3
    /\ trace[1] = PreventDefault
    /\ trace[2].type = "call"
    /\ trace[3].type = "call"

\* the mouse_press invocation a mouse pointerdown makes, from the event alone
PressCall(l, e) ==
    Call(l, "mouse_handler",
         [id |-> e.id, position |-> e.x * scale_factor, button |-> e.button,
          modifiers |-> e.mods])

\* C15: the delivery of a mouse pointerdown with a button to a registered
\* press closure makes the same mouse_press invocation whether the capture
\* request succeeds or fails, raises no error, and leaves the registry (the
\* six handles and the attached closures) as it was.
C15_CaptureFailureSwallowed ==
    [][(/\ last = NoEvent
        /\ last' # NoEvent
        /\ last'.name = "pointerdown"
        /\ last'.ptype = "mouse"
        /\ last'.button # NoButton
        /\ listeners["pointerdown"] # <<>>)
       => /\ handler' = handler
          /\ listeners' = listeners
          /\ Len(trace') = 2
          /\ trace'[1] = PressCall(listeners["pointerdown"][1], last')
          /\ trace'[2] \in {Capture(last'.id, TRUE), Capture(last'.id, FALSE)}]_vars

\* a mouse pointerdown of pointer 7 whose capture request failed: the
\* invocation was made with the scaled position and no error was recorded
C15_Witness ==
    /\ Delivered
    /\ last.name = "pointerdown"
    /\ last.ptype = "mouse"
    /\ last.id = 7
    /\ handler["on_pointer_press"] # None
    /\ Len(trace) = 2
    /\ trace[1].type = "call"
    /\ trace[1].args.position = last.x * scale_factor
    /\ trace[2] = Capture(7, FALSE)

\* C16: pointer capture is requested only by the mouse path of a pointerdown
\* delivery, for the pointer of that event; no other delivery and no
\* registration or teardown requests it, and nothing ever releases it.
C16_CaptureOnlyByMousePress ==
    /\ \A i \in DOMAIN trace :
          /\ trace[i].type \in {"call", "prevent_default", "capture", "panic"}
          /\ trace[i].type = "capture" =>
                /\ Delivered
                /\ last.name = "pointerdown"
                /\ last.ptype = "mouse"
                /\ trace[i].id = last.id
    /\ ~Delivered => trace = <<>>

\* a mouse pointerup with a button reached a registered release closure: the
\* handler was invoked and the capture was left alone
C16_Witness ==
    /\ Delivered
    /\ last.name = "pointerup"
    /\ last.ptype = "mouse"
    /\ handler["on_pointer_release"] # None
    /\ Len(trace) = 1
    /\ trace[1].type = "call"
    /\ trace[1].fn = "mouse_handler"

\* the handles attached to the channel of a field
AttachedTo(ls, f) == {ls[EventName(f)][i].h : i \in DOMAIN ls[EventName(f)]}

\* C18 as stated: when a registration attaches the new closure the old
\* handle of that kind has already been disposed, so the old and the new
\* closure are never attached together.
C18_OldDisposedFirst ==
    [][(pc = "idle" /\ pc' = "assign")
       => AttachedTo(listeners', opOf'[tmp']) = {tmp'}]_vars

\* C18, amended: a registration attaches the new closure while the old one
\* is still attached, after it on the channel, and the step that follows is
\* the assignment, which disposes the old handle and leaves the new closure
\* alone on the channel; no event is delivered between the two steps.
C18_NewAttachedThenOldDisposed ==
    [][/\ (pc = "idle" /\ pc' = "assign")
          => LET f == opOf'[tmp']
             IN  /\ Len(listeners'[EventName(f)]) = Len(listeners[EventName(f)]) + 1
                 /\ AttachedTo(listeners', f) = AttachedTo(listeners, f) \cup {tmp'}
                 /\ handler[f] # None => handler[f] \in AttachedTo(listeners', f)
                 /\ listeners'[EventName(f)][Len(listeners'[EventName(f)])].h = tmp'
       /\ pc = "assign"
          => /\ pc' = "idle"
             /\ AttachedTo(listeners', opOf[tmp]) = {tmp}
             /\ handler'[opOf[tmp]] = tmp
             /\ last' = last
             /\ trace' = trace]_vars

\* inside a registration that replaces a handler: the old and the new
\* closure are both attached
C18_Witness ==
    /\ pc = "assign"
    /\ handler[opOf[tmp]] # None
    /\ handler[opOf[tmp]] # tmp
    /\ AttachedTo(listeners, opOf[tmp]) = {handler[opOf[tmp]], tmp}

\* C19: the two steps of a registration leave the handles and the attached
\* closures of the five other kinds as they were, and when the registration
\* is over every kind torn down and not registered again is still empty.
C19_InstallFrame ==
    [][/\ (pc = "assign" \/ pc' = "assign")
          => LET field == IF pc = "assign" THEN opOf[tmp] ELSE opOf'[tmp']
             IN  \A f \in Fields \ {field} :
                     /\ handler'[f] = handler[f]
                     /\ listeners'[EventName(f)] = listeners[EventName(f)]
       /\ (pc = "assign" /\ pc' = "idle")
          => \A f \in torn' :
                 /\ handler'[f] = None
                 /\ listeners'[EventName(f)] = <<>>]_vars

\* two kinds were registered one after the other and an event of the first
\* kind still invokes the first handler
C19_Witness ==
    /\ installs = 2
    /\ opOf[1] # opOf[2]
    /\ handler[opOf[1]] = 1
    /\ handler[opOf[2]] = 2
    /\ Delivered
    /\ last.name = EventName(opOf[1])
    /\ \E i \in CallIdx(trace) : trace[i].h = 1

\* the device kind of a pointer type
DeviceKind(ptype) ==
    CASE ptype = "mouse" -> "Mouse" [] ptype = "touch" -> "Touch" [] OTHER -> "Other"

\* sub-event e disagrees with the root event on the pointer id or the device
\* kind or, for a mouse root, on the modifiers or the buttons
Disagrees(root, e) ==
    \/ e.id # root.id
    \/ DeviceKind(e.ptype) # DeviceKind(root.ptype)
    \/ /\ root.ptype = "mouse"
       /\ (e.mods # root.mods \/ e.buttons # root.buttons)

\* the position of the first disagreeing sub-event of the batch, or one past
\* the batch when all agree
FirstDisagreement(root) ==
    LET bad == {k \in DOMAIN root.coalesced : Disagrees(root, root.coalesced[k])}
    IN  IF bad = {} THEN Len(root.coalesced) + 1
        ELSE CHOOSE k \in bad : \A j \in bad : k <= j

\* C20: with debug assertions enabled the delivery of a batch whose k-th
\* sub-event is the first to disagree with the root invokes the handler for
\* the sub-events 1..k-1 and for none from k on; with debug assertions
\* disabled it invokes the handler for every sub-event.
C20_AbortAtFirstDisagreement ==
    (MoveDelivered /\ HasBatch) =>
        LET k == FirstDisagreement(last)
            n == IF debug_assertions THEN k - 1 ELSE Len(last.coalesced)
        IN  /\ Len(CallsOf(trace)) = n
            /\ \A i \in 1..n : CarriesSample(CallsOf(trace)[i], last.coalesced[i])

\* the handler invocations the log holds for arrival n, in program order
LoggedCalls(n) ==
    SelectSeq(log, LAMBDA r : r.n = n /\ r.entry.type = "call")

\* the sub-events of arrival e in host-provided order: its batch, or e itself
InOrder(e) ==
    IF e.has_coalesced /\ e.coalesced # <<>> THEN e.coalesced ELSE <<e>>

\* C17: the invocations of a stream of pointermove deliveries occur in the
\* order the events arrived: those of one delivery are contiguous, follow
\* the order of its sub-events, and come before those of every later one.
C17_ArrivalOrder ==
    /\ \A i, j \in DOMAIN log : i < j => log[i].n <= log[j].n
    /\ \A i \in DOMAIN log : log[i].n <= served
    /\ \A n \in 1..served :
          /\ Len(LoggedCalls(n)) = Len(InOrder(arrivals[n]))
          /\ \A k \in DOMAIN LoggedCalls(n) :
                CarriesSample(LoggedCalls(n)[k].entry, InOrder(arrivals[n])[k])

\* two events arrived, the first with a batch of two different samples; both
\* were delivered: two invocations of the first, then one of the second
C17_Witness ==
    /\ served = 2
    /\ Len(arrivals[1].coalesced) = 2
    /\ arrivals[1].coalesced[1].x # arrivals[1].coalesced[2].x
    /\ Len(LoggedCalls(1)) = 2
    /\ Len(LoggedCalls(2)) = 1
    /\ log[Len(log)].n = 2
    /\ log[Len(log)].entry.type = "call"

====
